---- MODULE Spec2Model ----
(***************************************************************************)
(* Model of src/aipm/reporting/contract_forecasting_service.py:            *)
(*   Q           the quantizer  D(str(x or 0)).quantize(D("0.01"))         *)
(*   cc_list     the cost code enumeration (SQL UNION ... ORDER BY code)   *)
(*   q_*         the aggregate queries and the zero-returning hooks        *)
(*   compute_row the A..N formula chain, one step per provider fetch       *)
(* Amounts are integers in cents.  Text is a sequence of one-character     *)
(* strings, so that str(), Decimal() and the label are computed.           *)
(***************************************************************************)
EXTENDS Integers, Sequences, FiniteSets, TLC

VARIABLES
    qin, qout,                      \* Q: the argument and the outcome
    estimates, purchase_orders,     \* the tables contract_estimates, purchase_orders
    project_id,                     \* the project_id argument of cc_list / compute_row
    ccOut,                          \* what cc_list returned
    cc, include_pending, use_alt,   \* compute_row's arguments
    hooks,                          \* TRUE: the hooks of this file (all Q(0)); FALSE: replaced hooks
    pc,                             \* position of the running call
    loc,                            \* compute_row's local variables
    row,                            \* the Line compute_row returned (NoRow before)
    fetched,                        \* provider fetches that succeeded, in order
    err,                            \* the fetch at which the call raised
    writes,                         \* writes to contract_estimates so far
    midChange                       \* the budget answer changed after A was fetched, before J

vars == <<qin, qout, estimates, purchase_orders, project_id, ccOut, cc,
          include_pending, use_alt, hooks, pc, loc, row, fetched, err, writes, midChange>>

(***************************************************************************)
(* Bounds of the model                                                     *)
(***************************************************************************)
MaxStrLen == 4          \* longest text handed to Q
MaxCoef == 25           \* largest |coefficient| of a number handed to Q
MaxEst == 2             \* rows of contract_estimates when cc_list runs
MaxPO == 2              \* rows of purchase_orders when cc_list runs
MaxWrites == 1          \* writes to contract_estimates during one compute_row

(***************************************************************************)
(* Python values                                                           *)
(***************************************************************************)
PyNone == [t |-> "None"]
PyBool(b) == [t |-> "bool", b |-> b]
\* an int or a Decimal: coef * 10^(-scale)
PyNum(coef, scale) == [t |-> "num", coef |-> coef, scale |-> scale]
PyStr(s) == [t |-> "str", s |-> s]
PyList(n) == [t |-> "list", n |-> n]
Missing == [t |-> "missing"]    \* a key that a dict does not hold

Digits == <<"0", "1", "2", "3", "4", "5", "6", "7", "8", "9">>
DigitSet == {Digits[i] : i \in 1..10}
DigitVal(c) == (CHOOSE i \in 1..10 : Digits[i] = c) - 1

RECURSIVE Pow10(_)
Pow10(k) == IF k <= 0 THEN 1 ELSE 10 * Pow10(k - 1)

Abs(n) == IF n < 0 THEN -n ELSE n

\* bool(x): the operand test of "x or 0"
Truthy(x) ==
    CASE x.t = "None" -> FALSE
      [] x.t = "bool" -> x.b
      [] x.t = "num"  -> x.coef # 0
      [] x.t = "str"  -> Len(x.s) > 0
      [] x.t = "list" -> x.n > 0
      [] OTHER -> TRUE

\* x or 0
OrZero(x) == IF Truthy(x) THEN x ELSE PyNum(0, 0)

RECURSIVE NatStr(_)
NatStr(n) == IF n < 10 THEN <<Digits[n + 1]>>
             ELSE NatStr(n \div 10) \o <<Digits[(n % 10) + 1]>>

RECURSIVE ZeroPad(_, _)
ZeroPad(s, width) == IF Len(s) >= width THEN s ELSE ZeroPad(<<"0">> \o s, width)

\* str() of an int or a Decimal in plain notation: "-0.005", "12", "1.50"
NumStr(coef, scale) ==
    LET ds == ZeroPad(NatStr(Abs(coef)), scale + 1)
        n == Len(ds)
        sign == IF coef < 0 THEN <<"-">> ELSE <<>>
    IN IF scale = 0 THEN sign \o ds
       ELSE sign \o SubSeq(ds, 1, n - scale) \o <<".">> \o SubSeq(ds, n - scale + 1, n)

\* str(x)
Str(x) ==
    CASE x.t = "None" -> <<"N", "o", "n", "e">>
      [] x.t = "bool" -> IF x.b THEN <<"T", "r", "u", "e">> ELSE <<"F", "a", "l", "s", "e">>
      [] x.t = "num"  -> NumStr(x.coef, x.scale)
      [] x.t = "str"  -> x.s
      [] x.t = "list" -> IF x.n = 0 THEN <<"[", "]">> ELSE <<"[", "1", "]">>
      [] OTHER -> <<>>

IndexOf(s, c) == IF \E i \in 1..Len(s) : s[i] = c
                 THEN CHOOSE i \in 1..Len(s) : s[i] = c /\ \A j \in 1..(i - 1) : s[j] # c
                 ELSE 0

AllDigits(s) == \A i \in 1..Len(s) : s[i] \in DigitSet

RECURSIVE DigitsVal(_)
DigitsVal(s) == IF Len(s) = 0 THEN 0
                ELSE 10 * DigitsVal(SubSeq(s, 1, Len(s) - 1)) + DigitVal(s[Len(s)])

InvalidOperation == [ok |-> FALSE, err |-> "InvalidOperation"]

\* Decimal(text) for text made of digits, signs, the point and other printable
\* characters: [sign] digits [. digits] or [sign] . digits is a number, anything else
\* raises InvalidOperation.  Exponents, "NaN", "Infinity", underscores and surrounding
\* blanks, which Decimal() also reads, are outside the texts of QChars.
Decimal(s) ==
    LET signed == Len(s) > 0 /\ s[1] \in {"-", "+"}
        neg == Len(s) > 0 /\ s[1] = "-"
        body == IF signed THEN Tail(s) ELSE s
        dot == IndexOf(body, ".")
        intS == IF dot = 0 THEN body ELSE SubSeq(body, 1, dot - 1)
        fracS == IF dot = 0 THEN <<>> ELSE SubSeq(body, dot + 1, Len(body))
    IN IF AllDigits(intS) /\ AllDigits(fracS) /\ Len(intS) + Len(fracS) > 0
       THEN [ok |-> TRUE,
             coef |-> (IF neg THEN -1 ELSE 1) * DigitsVal(intS \o fracS),
             scale |-> Len(fracS)]
       ELSE InvalidOperation

\* d.quantize(Decimal("0.01")) under the default context (ROUND_HALF_EVEN), in cents
Quantize(coef, scale) ==
    IF scale <= 2 THEN coef * Pow10(2 - scale)
    ELSE LET p == Pow10(scale - 2)
             q == Abs(coef) \div p
             r == Abs(coef) % p
             up == (2 * r > p) \/ (2 * r = p /\ q % 2 = 1)
             m == IF up THEN q + 1 ELSE q
         IN IF coef < 0 THEN -m ELSE m

Q(x) ==
    LET d == Decimal(Str(OrZero(x)))
    IN IF d.ok THEN [ok |-> TRUE, cents |-> Quantize(d.coef, d.scale)]
       ELSE InvalidOperation

(***************************************************************************)
(* The tables.  A table is a sequence of rows; amounts are numeric values  *)
(* with three fractional digits (awarded_value 1005 is 1.005).             *)
(***************************************************************************)
Projects == {1, 2}
Codes == {<<"0", "1">>, <<"0", "2">>}
Categories == {PyNone, PyStr(<<"C">>), PyStr(<<"S">>)}
AwardedValues == {-500, 1005, 2015}
Statuses == {"sent", "draft"}
Amounts == {-1000, 3000}

EstimateRows == [project_id : Projects, cost_code : Codes,
                 material_category : Categories, awarded_value : AwardedValues]
PORows == [project_id : Projects, cost_code : Codes,
           status : Statuses, total_amount : Amounts]

RECURSIVE SeqsUpTo(_, _)
SeqsUpTo(S, n) == IF n = 0 THEN {<<>>}
                  ELSE LET shorter == SeqsUpTo(S, n - 1)
                       IN shorter \cup {Append(s, x) : s \in {t \in shorter : Len(t) = n - 1}, x \in S}

RECURSIVE SumSeq(_)
SumSeq(s) == IF Len(s) = 0 THEN 0 ELSE Head(s) + SumSeq(Tail(s))

\* SUM(...) of a column over the selected rows: NULL when there is none
SqlSum(values) == IF Len(values) = 0 THEN PyNone ELSE PyNum(SumSeq(values), 3)

\* COALESCE(v, 0)
Coalesce0(v) == IF v = PyNone THEN PyNum(0, 0) ELSE v

(***************************************************************************)
(* cc_list                                                                 *)
(***************************************************************************)
\* text comparison of two codes made of digits (ORDER BY code)
RECURSIVE TextLess(_, _)
TextLess(a, b) ==
    IF Len(b) = 0 THEN FALSE
    ELSE IF Len(a) = 0 THEN TRUE
    ELSE IF a[1] # b[1] THEN DigitVal(a[1]) < DigitVal(b[1])
    ELSE TextLess(Tail(a), Tail(b))

\* SELECT DISTINCT ce.cost_code, ce.cost_code, ce.material_category ... WHERE ce.project_id = %s
SelectEstimateCodes(est, pid) ==
    {[id |-> est[i].cost_code, code |-> est[i].cost_code, description |-> est[i].material_category]
        : i \in {j \in 1..Len(est) : est[j].project_id = pid}}

\* SELECT DISTINCT po.cost_code, po.cost_code, '' ... WHERE po.project_id = %s
SelectPOCodes(pos, pid) ==
    {[id |-> pos[i].cost_code, code |-> pos[i].cost_code, description |-> PyStr(<<>>)]
        : i \in {j \in 1..Len(pos) : pos[j].project_id = pid}}

\* UNION removes duplicate rows: rows that agree in all three columns
SqlUnion(R1, R2) == R1 \cup R2

\* ORDER BY code: every ascending arrangement; rows of equal code come in any order
RECURSIVE OrderByCode(_)
OrderByCode(R) ==
    IF R = {} THEN {<<>>}
    ELSE LET first == {r \in R : \A o \in R : ~TextLess(o.code, r.code)}
         IN UNION {{<<r>> \o rest : rest \in OrderByCode(R \ {r})} : r \in first}

\* the lists cc_list may return: fetchall() turned into dicts
cc_list(est, pos, pid) ==
    OrderByCode(SqlUnion(SelectEstimateCodes(est, pid), SelectPOCodes(pos, pid)))

(***************************************************************************)
(* Aggregate queries and hooks                                             *)
(***************************************************************************)
\* SELECT COALESCE(SUM(awarded_value), 0) FROM contract_estimates WHERE project_id, cost_code
q_budget_plus_approvedCO(est, pid, ccid) ==
    LET sel == SelectSeq(est, LAMBDA e : e.project_id = pid /\ e.cost_code = ccid)
        result == <<Coalesce0(SqlSum([i \in 1..Len(sel) |-> sel[i].awarded_value]))>>
    IN Q(IF Len(result) > 0 THEN result[1] ELSE PyNum(0, 0))

\* number of contract_estimates rows a purchase order joins with
JoinCount(est, po, ccid) ==
    Cardinality({i \in 1..Len(est) : est[i].project_id = po.project_id /\ est[i].cost_code = ccid})

RECURSIVE JoinAmounts(_, _, _)
JoinAmounts(est, pos, ccid) ==
    IF Len(pos) = 0 THEN <<>>
    ELSE [i \in 1..JoinCount(est, Head(pos), ccid) |-> Head(pos).total_amount]
         \o JoinAmounts(est, Tail(pos), ccid)

\* SELECT COALESCE(SUM(po.total_amount), 0) FROM purchase_orders po
\*   JOIN contract_estimates ce ON po.project_id = ce.project_id
\*   WHERE po.project_id = %s AND ce.cost_code = %s AND po.status IN (...)
q_committed_po_lines(est, pos, pid, ccid) ==
    LET sel == SelectSeq(pos, LAMBDA po : po.project_id = pid
                                          /\ po.status \in {"sent", "acknowledged", "partial"})
        result == <<Coalesce0(SqlSum(JoinAmounts(est, sel, ccid)))>>
    IN Q(IF Len(result) > 0 THEN result[1] ELSE PyNum(0, 0))

q_spent_outside_commitment == Q(PyNum(0, 0))
q_current_period_cost == Q(PyNum(0, 0))
q_unposted_internal_pci_cost == Q(PyNum(0, 0))
q_unposted_external_pci_cost == Q(PyNum(0, 0))
\* a revenue hook that answers 7.00
q_unposted_pci_revenue_budget_nonzero == Q(PyNum(7, 0))

q_unposted_pci_revenue_budget == Q(PyNum(0, 0))
q_advance_scos == Q(PyNum(0, 0))
q_scos_issued_on_unposted == Q(PyNum(0, 0))

(***************************************************************************)
(* compute_row                                                             *)
(***************************************************************************)
\* answers of a replaced hook, in cents (a hook of this file answers Q(0))
ReplacedAnswers(name) ==
    IF name \in {"spent_outside", "cur", "E"} THEN {50} ELSE {-300, 50}

HookAnswer(name, shipped) == IF hooks THEN {shipped.cents} ELSE ReplacedAnswers(name)

Max(a, b) == IF a >= b THEN a ELSE b
Min(a, b) == IF a <= b THEN a ELSE b

\* G with the "A < B" test dropped: only the negative result is clamped
G_ctc_oneclamp(A, B, C) == IF A - C < 0 THEN 0 ELSE A - C

\* G = A - C; if A < B: G = Q(0); if G < 0: G = Q(0)
G_ctc(A, B, C) ==
    LET G0 == A - C
        G1 == IF A < B THEN Q(PyNum(0, 0)).cents ELSE G0
    IN IF G1 < 0 THEN Q(PyNum(0, 0)).cents ELSE G1

\* H without its clamp
H_ctc_unposted_noclamp(F_adj, adv) == F_adj - adv

\* H = F_adj - q_advance_scos(...); if H < 0: H = Q(0)
H_ctc_unposted(F_adj, adv) ==
    LET H0 == F_adj - adv
    IN IF H0 < 0 THEN Q(PyNum(0, 0)).cents ELSE H0

\* I where the alternate formula is used only when G is zero
I_cost_fcst_blend(alt, A, C, F_adj, G, H) ==
    IF alt /\ G = 0 THEN A + F_adj ELSE C + G + H

\* I = C + G + H; if use_alt_I_when_no_G_override: I = A + F_adj
I_cost_fcst(alt, A, C, F_adj, G, H) ==
    LET I0 == C + G + H
    IN IF alt THEN A + F_adj ELSE I0

\* M that leaves L out
M_rev_fcst_noL(J, L) == J

\* M = J + L
M_rev_fcst(J, L) == J + L

\* N = M - I
N_gain_loss(M, I) == M - I

\* cc.get("description", "")
GetDescription(c) == IF c.description = Missing THEN PyStr(<<>>) ELSE c.description

\* the character U+2014 of the label's separator
EmDash == "em-dash"

\* f'{cc["code"]} <U+2014> {cc.get("description","")}'
Label(c) == c.code \o <<" ", EmDash, " ">> \o Str(GetDescription(c))

NoRow == [none |-> TRUE]

Line(c, l) ==
    [cost_code |-> Label(c),
     A |-> l.A, B |-> l.B, C |-> l.C, cur |-> l.cur,
     D_int |-> l.D_int, E_ext |-> l.E_ext, F_adj |-> l.F_adj,
     G_ctc |-> l.G, H_ctc_unposted |-> l.H, I_cost_fcst |-> l.I,
     J_rev_budget |-> l.J, K_unposted_rev |-> l.K, L_unposted_rev_adj |-> l.L,
     M_rev_fcst |-> l.M, N_gain_loss |-> l.N]

NoLocals ==
    [A |-> 0, committed |-> 0, spent_outside |-> 0, C |-> 0, sco |-> 0, B |-> 0, cur |-> 0,
     D_int |-> 0, E_ext |-> 0, F_adj |-> 0, G |-> 0, adv |-> 0, H |-> 0, I |-> 0,
     J |-> 0, K |-> 0, L |-> 0, M |-> 0, N |-> 0]

\* the provider fetches compute_row makes, in order
Chain(pending) ==
    <<"A", "committed", "spent_outside", "scos_unposted", "cur">>
    \o (IF pending THEN <<"D", "E">> ELSE <<>>)
    \o <<"adv", "J">>
    \o (IF pending THEN <<"K">> ELSE <<>>)

Running == pc \in {"A", "committed", "spent_outside", "scos_unposted", "cur",
                   "D", "E", "adv", "J", "K", "ret"}

TablesSame == UNCHANGED <<estimates, purchase_orders, project_id>>
OthersSame == UNCHANGED <<qin, qout, ccOut>>
ArgsSame == UNCHANGED <<cc, include_pending, use_alt, hooks>>

\* a step of compute_row that fetched `name` and goes on at `next`
Step(name, next, newLoc) ==
    /\ pc = name
    /\ pc' = next
    /\ loc' = newLoc
    /\ fetched' = Append(fetched, name)
    /\ UNCHANGED <<row, err, writes, midChange>>
    /\ TablesSame /\ OthersSame /\ ArgsSame

\* a step of compute_row that assigns without fetching
Assign(name, next, newLoc) ==
    /\ pc = name
    /\ pc' = next
    /\ loc' = newLoc
    /\ UNCHANGED <<fetched, row, err, writes, midChange>>
    /\ TablesSame /\ OthersSame /\ ArgsSame

\* A = q_budget_plus_approvedCO(db, project_id, cc["id"])
FetchA ==
    LET a == q_budget_plus_approvedCO(estimates, project_id, cc.id)
    IN Step("A", "committed", [loc EXCEPT !.A = a.cents])

\* committed = q_committed_po_lines(db, project_id, cc["id"])
FetchCommitted ==
    LET c == q_committed_po_lines(estimates, purchase_orders, project_id, cc.id)
    IN Step("committed", "spent_outside", [loc EXCEPT !.committed = c.cents])

\* spent_outside = q_spent_outside_commitment(...); C = committed + spent_outside
FetchSpentOutside ==
    \E ans \in HookAnswer("spent_outside", q_spent_outside_commitment) :
        Step("spent_outside", "scos_unposted",
             [loc EXCEPT !.spent_outside = ans, !.C = loc.committed + ans])

\* B = C - q_scos_issued_on_unposted(...)
FetchScosOnUnposted ==
    \E ans \in HookAnswer("scos_unposted", q_scos_issued_on_unposted) :
        Step("scos_unposted", "cur", [loc EXCEPT !.sco = ans, !.B = loc.C - ans])

\* cur = q_current_period_cost(...)
FetchCurrentPeriod ==
    \E ans \in HookAnswer("cur", q_current_period_cost) :
        Step("cur", "D", [loc EXCEPT !.cur = ans])

\* D_int = q_unposted_internal_pci_cost(...) if include_pending else Q(0)
FetchD ==
    IF include_pending
    THEN \E ans \in HookAnswer("D", q_unposted_internal_pci_cost) :
            Step("D", "E", [loc EXCEPT !.D_int = ans])
    ELSE Assign("D", "E", [loc EXCEPT !.D_int = Q(PyNum(0, 0)).cents])

\* E_ext = ... if include_pending else Q(0); F_adj = D_int + E_ext; G (lines 174-177)
AfterE(e) ==
    [loc EXCEPT !.E_ext = e, !.F_adj = loc.D_int + e, !.G = G_ctc(loc.A, loc.B, loc.C)]

FetchE ==
    IF include_pending
    THEN \E ans \in HookAnswer("E", q_unposted_external_pci_cost) : Step("E", "adv", AfterE(ans))
    ELSE Assign("E", "adv", AfterE(Q(PyNum(0, 0)).cents))

\* H = F_adj - q_advance_scos(...), clamped; I
FetchAdvanceScos ==
    \E ans \in HookAnswer("adv", q_advance_scos) :
        LET H == H_ctc_unposted(loc.F_adj, ans)
        IN Step("adv", "J",
                [loc EXCEPT !.adv = ans, !.H = H,
                            !.I = I_cost_fcst(use_alt, loc.A, loc.C, loc.F_adj, loc.G, H)])

\* J taken from the committed-cost query instead of the budget query
FetchJ_committed ==
    LET j == q_committed_po_lines(estimates, purchase_orders, project_id, cc.id)
    IN Step("J", "K", [loc EXCEPT !.J = j.cents])

\* J = q_budget_plus_approvedCO(db, project_id, cc["id"])
FetchJ ==
    LET j == q_budget_plus_approvedCO(estimates, project_id, cc.id)
    IN Step("J", "K", [loc EXCEPT !.J = j.cents])

\* K = q_unposted_pci_revenue_budget(...) if include_pending else Q(0); L = K; M; N
AfterK(k) ==
    LET M == M_rev_fcst(loc.J, k)
    IN [loc EXCEPT !.K = k, !.L = k, !.M = M, !.N = N_gain_loss(M, loc.I)]

FetchK ==
    IF include_pending
    THEN \E ans \in HookAnswer("K", q_unposted_pci_revenue_budget) : Step("K", "ret", AfterK(ans))
    ELSE Assign("K", "ret", AfterK(Q(PyNum(0, 0)).cents))

\* return Line(...)
Return ==
    /\ pc = "ret"
    /\ pc' = "done"
    /\ row' = Line(cc, loc)
    /\ UNCHANGED <<loc, fetched, err, writes, midChange>>
    /\ TablesSame /\ OthersSame /\ ArgsSame

\* the fetches that can raise: the two queries always, a hook only when replaced
CanFail(name) ==
    /\ \E i \in 1..Len(Chain(include_pending)) : Chain(include_pending)[i] = name
    /\ (hooks => name \in {"A", "committed", "J"})

\* a failed fetch swallowed: the call goes on with the default 0 for the aggregate
ProviderFails_default ==
    /\ pc \in {"A", "committed"} /\ CanFail(pc)
    /\ err' = pc
    /\ pc' = IF pc = "A" THEN "committed" ELSE "spent_outside"
    /\ UNCHANGED <<loc, fetched, row, writes, midChange>>
    /\ TablesSame /\ OthersSame /\ ArgsSame

\* the provider raises in the fetch compute_row is about to make
ProviderFails ==
    /\ Running /\ CanFail(pc)
    /\ err' = pc
    /\ pc' = "raised"
    /\ UNCHANGED <<loc, fetched, row, writes, midChange>>
    /\ TablesSame /\ OthersSame /\ ArgsSame

(***************************************************************************)
(* A concurrent writer of contract_estimates                               *)
(***************************************************************************)
\* whether A was fetched and J is still to be fetched
BetweenAandJ == pc \in {"committed", "spent_outside", "scos_unposted", "cur", "D", "E", "adv", "J"}

Written(newEst) ==
    /\ Running
    /\ writes < MaxWrites
    /\ writes' = writes + 1
    /\ estimates' = newEst
    /\ midChange' = (midChange \/ (BetweenAandJ
                       /\ q_budget_plus_approvedCO(newEst, project_id, cc.id)
                          # q_budget_plus_approvedCO(estimates, project_id, cc.id)))
    /\ UNCHANGED <<purchase_orders, project_id, pc, loc, row, fetched, err>>
    /\ OthersSame /\ ArgsSame

UpdateAwarded ==
    \E i \in 1..Len(estimates), v \in AwardedValues :
        /\ v # estimates[i].awarded_value
        /\ Written([estimates EXCEPT ![i].awarded_value = v])

\* the rows the tables hold when compute_row is studied
RowEstimateRows ==
    {[project_id |-> 1, cost_code |-> <<"0", "1">>, material_category |-> PyNone, awarded_value |-> -500],
     [project_id |-> 1, cost_code |-> <<"0", "1">>, material_category |-> PyStr(<<"C">>), awarded_value |-> 1005],
     [project_id |-> 1, cost_code |-> <<"0", "2">>, material_category |-> PyStr(<<"C">>), awarded_value |-> 1005],
     [project_id |-> 2, cost_code |-> <<"0", "1">>, material_category |-> PyStr(<<"C">>), awarded_value |-> 1005]}
RowPORows ==
    {[project_id |-> 1, cost_code |-> <<"0", "1">>, status |-> "sent", total_amount |-> 3000],
     [project_id |-> 1, cost_code |-> <<"0", "1">>, status |-> "sent", total_amount |-> -1000],
     [project_id |-> 1, cost_code |-> <<"0", "2">>, status |-> "draft", total_amount |-> 3000],
     [project_id |-> 2, cost_code |-> <<"0", "1">>, status |-> "sent", total_amount |-> 3000]}

\* the tables when compute_row starts: at most one row each (the writer adds more)
InitEstimates == SeqsUpTo(RowEstimateRows, 1)
InitPurchaseOrders == SeqsUpTo(RowPORows, 1)

InsertEstimate ==
    \E r \in RowEstimateRows : Written(Append(estimates, r))

(***************************************************************************)
(* Specification of compute_row, with the writer                           *)
(***************************************************************************)
\* the dicts handed to compute_row: those cc_list returns, and dicts without a description
CcInputs(est, pos, pid) ==
    SqlUnion(SelectEstimateCodes(est, pid), SelectPOCodes(pos, pid))
    \cup {[id |-> c, code |-> c, description |-> Missing] : c \in Codes}

QIdle == /\ qin = PyNone
         /\ qout = "idle"

InitRow ==
    /\ QIdle
    /\ ccOut = <<>>
    /\ estimates \in InitEstimates
    /\ purchase_orders \in InitPurchaseOrders
    /\ project_id = 1
    /\ cc \in CcInputs(estimates, purchase_orders, project_id)
    /\ include_pending \in BOOLEAN
    /\ use_alt \in BOOLEAN
    /\ hooks \in BOOLEAN
    /\ pc = "A"
    /\ loc = NoLocals
    /\ row = NoRow
    /\ fetched = <<>>
    /\ err = "none"
    /\ writes = 0
    /\ midChange = FALSE

NextRow ==
    \/ FetchA \/ FetchCommitted \/ FetchSpentOutside \/ FetchScosOnUnposted
    \/ FetchCurrentPeriod \/ FetchD \/ FetchE \/ FetchAdvanceScos \/ FetchJ \/ FetchK
    \/ Return
    \/ ProviderFails
    \/ UpdateAwarded \/ InsertEstimate

Spec == InitRow /\ [][NextRow]_vars

(***************************************************************************)
(* Specification of cc_list                                                *)
(***************************************************************************)
RowIdle ==
    /\ cc = [id |-> <<>>, code |-> <<>>, description |-> Missing]
    /\ include_pending = TRUE
    /\ use_alt = FALSE
    /\ hooks = TRUE
    /\ loc = NoLocals
    /\ row = NoRow
    /\ fetched = <<>>
    /\ err = "none"
    /\ writes = 0
    /\ midChange = FALSE

CcEstimateRows == {r \in EstimateRows : r.awarded_value = 1005}
CcPORows == {r \in PORows : r.status = "sent" /\ r.total_amount = 3000}

InitCc ==
    /\ QIdle /\ RowIdle
    /\ estimates \in SeqsUpTo(CcEstimateRows, MaxEst)
    /\ purchase_orders \in SeqsUpTo(CcPORows, MaxPO)
    /\ project_id \in Projects
    /\ ccOut = <<>>
    /\ pc = "cc_list"

\* return [{"id": row[0], "code": row[1], "description": row[2]} for row in rows]
CcList ==
    /\ pc = "cc_list"
    /\ ccOut' \in cc_list(estimates, purchase_orders, project_id)
    /\ pc' = "cc_done"
    /\ UNCHANGED <<qin, qout, cc, include_pending, use_alt, hooks, loc, row, fetched,
                   err, writes, midChange>>
    /\ TablesSame

NextCc == CcList

SpecCc == InitCc /\ [][NextCc]_vars

(***************************************************************************)
(* Specification of Q                                                      *)
(***************************************************************************)
QChars == {"0", "1", "5", ".", "-", "x"}

QInputs ==
    {PyNone, PyBool(TRUE), PyBool(FALSE), PyList(0), PyList(1)}
    \cup {PyNum(c, sc) : c \in (-MaxCoef)..MaxCoef, sc \in 0..3}
    \cup {PyStr(s) : s \in SeqsUpTo(QChars, MaxStrLen)}

InitQ ==
    /\ RowIdle
    /\ estimates = <<>>
    /\ purchase_orders = <<>>
    /\ project_id = 1
    /\ ccOut = <<>>
    /\ qin \in QInputs
    /\ qout = "pending"
    /\ pc = "Q"

ApplyQ ==
    /\ pc = "Q"
    /\ qout' = Q(qin)
    /\ pc' = "Q_done"
    /\ UNCHANGED <<qin, ccOut, cc, include_pending, use_alt, hooks, loc, row, fetched,
                   err, writes, midChange>>
    /\ TablesSame

NextQ == ApplyQ

SpecQ == InitQ /\ [][NextQ]_vars

(***************************************************************************)
(* Properties of compute_row (checked under Spec)                          *)
(***************************************************************************)
Done == pc = "done"

\* C1: in every returned row G_ctc >= 0 and H_ctc_unposted >= 0, whatever the
\* provider answered and whatever the flags are
C1_Clamp == Done => row.G_ctc >= 0 /\ row.H_ctc_unposted >= 0

\* a row where both clamps acted: C exceeds A and the advance SCOs exceed F
C1_Witness ==
    /\ Done
    /\ row.A < row.C /\ row.G_ctc = 0
    /\ loc.adv > row.F_adj /\ row.H_ctc_unposted = 0

\* C2: with B = C - (SCOs on unposted), A < B gives G = 0 even when A - C > 0,
\* and A >= B gives G = max(0, A - C)
C2_GTriggers ==
    Done => /\ row.B = row.C - loc.sco
            /\ (row.A < row.B => row.G_ctc = 0)
            /\ (row.A >= row.B => row.G_ctc = Max(0, row.A - row.C))

\* a row with A < B and A - C positive (the SCO amount is negative), G = 0
C2_Witness ==
    /\ Done
    /\ loc.sco < 0 /\ row.A < row.B /\ row.A - row.C > 0
    /\ row.G_ctc = 0

\* C3: I is A + F when use_alt_I_when_no_G_override is set and C + G + H when it is not
C3_ForecastByFlag ==
    Done => row.I_cost_fcst = (IF use_alt THEN row.A + row.F_adj
                               ELSE row.C + row.G_ctc + row.H_ctc_unposted)

\* a row under the alternate formula in which the two formulas differ and G is not zero
C3_Witness ==
    /\ Done /\ use_alt
    /\ row.G_ctc # 0
    /\ row.A + row.F_adj # row.C + row.G_ctc + row.H_ctc_unposted
    /\ row.I_cost_fcst = row.A + row.F_adj

\* C4: every returned row has N = M - I, M = J + L and L = K
C4_Algebra ==
    Done => /\ row.N_gain_loss = row.M_rev_fcst - row.I_cost_fcst
            /\ row.M_rev_fcst = row.J_rev_budget + row.L_unposted_rev_adj
            /\ row.L_unposted_rev_adj = row.K_unposted_rev

\* a row with a revenue adjustment and a gain/loss that are not zero
C4_Witness ==
    /\ Done
    /\ row.K_unposted_rev # 0 /\ row.J_rev_budget # 0 /\ row.N_gain_loss # 0

\* C7 as stated: the label is code, separator, description, and an absent description
\* (key missing, or value None) is rendered as the empty text
C7_LabelAbsentEmpty ==
    Done => row.cost_code =
              cc.code \o <<" ", EmDash, " ">>
              \o (IF cc.description \in {Missing, PyNone} THEN <<>> ELSE cc.description.s)

\* C8: J differs from A only if the budget answer changed between the fetch of A and
\* the fetch of J; G, and I under the alternate formula, use the A fetched first
C8_JEqualsAUnlessChanged ==
    Done => /\ (row.J_rev_budget # row.A => midChange)
            /\ row.G_ctc = G_ctc(row.A, row.B, row.C)
            /\ (use_alt => row.I_cost_fcst = row.A + row.F_adj)

\* a row whose J differs from A after a write between the two fetches, under the
\* alternate formula
C8_Witness ==
    /\ Done /\ use_alt
    /\ midChange
    /\ row.J_rev_budget # row.A
    /\ row.I_cost_fcst # row.J_rev_budget + row.F_adj

IsPrefix(s, t) == Len(s) <= Len(t) /\ SubSeq(t, 1, Len(s)) = s

\* a failed fetch ends the call there: no row, no fetch after it, and the failed
\* fetch is the next one of the chain
FailsFast ==
    err # "none" => /\ pc = "raised"
                    /\ row = NoRow
                    /\ IsPrefix(Append(fetched, err), Chain(include_pending))

\* C9 as stated: fail fast, and a row is returned only after all ten fetches
\* A, committed, spentOutside, SCOs on unposted, current period, D, E, advance SCOs, J, K
C9_AllTenFetches ==
    /\ FailsFast
    /\ (row # NoRow => fetched = Chain(TRUE))

\* C9 amended: fail fast, and a row is returned only after all fetches the flags call
\* for have succeeded, in order (D, E and K are fetched only when include_pending is set)
C9_FailFast ==
    /\ FailsFast
    /\ (row # NoRow => Done /\ err = "none" /\ fetched = Chain(include_pending))
    /\ (Done => row # NoRow)

\* a call that raised at the fetch of J, after the earlier fetches succeeded
C9_Witness ==
    /\ pc = "raised" /\ err = "J"
    /\ row = NoRow
    /\ include_pending
    /\ fetched = <<"A", "committed", "spent_outside", "scos_unposted", "cur", "D", "E", "adv">>

\* C10: with the hooks of this file and a budget answer that does not change during the
\* call, cur = D = E = F = H = K = L = 0, B = C, M = J = A, and N = min(0, A - C)
\* (flag off) or N = 0 (flag on)
C10_ShippedHooks ==
    (Done /\ hooks /\ ~midChange) =>
        /\ row.cur = 0 /\ row.D_int = 0 /\ row.E_ext = 0 /\ row.F_adj = 0
        /\ row.H_ctc_unposted = 0 /\ row.K_unposted_rev = 0 /\ row.L_unposted_rev_adj = 0
        /\ row.B = row.C
        /\ row.M_rev_fcst = row.J_rev_budget /\ row.J_rev_budget = row.A
        /\ row.N_gain_loss = (IF use_alt THEN 0 ELSE Min(0, row.A - row.C))
        /\ row.N_gain_loss <= 0

\* a row of the shipped hooks with a negative budget, pending included, and a loss
C10_Witness ==
    /\ Done /\ hooks /\ ~midChange /\ ~use_alt /\ include_pending
    /\ row.A < 0 /\ row.C > 0
    /\ row.N_gain_loss = row.A - row.C

(***************************************************************************)
(* Properties of Q (checked under SpecQ)                                   *)
(***************************************************************************)
\* None, a number (bool included), or text that Decimal() accepts
NullOrNumeric(x) ==
    \/ x = PyNone
    \/ x.t \in {"num", "bool"}
    \/ (x.t = "str" /\ Decimal(x.s).ok)

\* C5 as stated: an input that is neither null nor a number nor numeric text raises,
\* and is never turned into 0.00
C5_MalformedRaises ==
    pc = "Q_done" => (~NullOrNumeric(qin) => ~qout.ok)

(***************************************************************************)
(* Properties of cc_list (checked under SpecCc)                            *)
(***************************************************************************)
\* the codes of the project's estimate rows and purchase-order rows
CodesOf(est, pos, pid) ==
    {est[i].cost_code : i \in {j \in 1..Len(est) : est[j].project_id = pid}}
    \cup {pos[i].cost_code : i \in {j \in 1..Len(pos) : pos[j].project_id = pid}}

\* C6 as stated: each distinct code exactly once, in ascending order of code, codes
\* of one source included
C6_OneEntryPerCode ==
    pc = "cc_done" =>
        /\ \A c \in CodesOf(estimates, purchase_orders, project_id) :
              Cardinality({i \in 1..Len(ccOut) : ccOut[i].code = c}) = 1
        /\ \A i \in 1..Len(ccOut) : ccOut[i].code \in CodesOf(estimates, purchase_orders, project_id)
        /\ \A i \in 1..Len(ccOut) : \A j \in (i + 1)..Len(ccOut) :
              ~TextLess(ccOut[j].code, ccOut[i].code)

====
